---- MODULE Spec2Model ----
(***************************************************************************)
(* PDF Extraction Playground: the /upload and /extract endpoints of        *)
(* backend/main.py and DoclingExtractor of                                 *)
(* backend/extractors/docling_extractor.py.                                *)
(*                                                                         *)
(* Python strings are sequences of one-character strings, so that          *)
(* str.lower, str.strip, str.endswith, f-strings and "\n".join are         *)
(* computed and not assumed.  The names of the element types, of the       *)
(* envelope keys and of the log lines are plain strings.                   *)
(***************************************************************************)
EXTENDS Integers, Sequences, FiniteSets, TLC

\* ------------------------------------------------------------------ bounds

\* Concurrent requests in flight (allow_concurrent_inputs is 10 in main.py).
NumCalls == 2
\* Names tempfile can hand out (the real name space is far larger).
NumTmpNames == 2
\* Items the primary engine yields for one document.
MaxItems == 2
\* Pages the fallback reader finds in one document.
MaxPages == 2

Calls == 1..NumCalls
TmpNames == 1..NumTmpNames

\* ------------------------------------------------------- Python strings

NL == "\n"
Whitespace == {" ", NL, "\t"}

\* str.lower on one character, over the letters the labels use.
LowerChar(ch) ==
    CASE ch = "H" -> "h"
      [] ch = "T" -> "t"
      [] ch = "P" -> "p"
      [] ch = "F" -> "f"
      [] ch = "I" -> "i"
      [] ch = "L" -> "l"
      [] ch = "E" -> "e"
      [] ch = "D" -> "d"
      [] OTHER -> ch

\* str.lower
Lower(s) == [i \in 1..Len(s) |-> LowerChar(s[i])]

RECURSIVE LStrip(_)
LStrip(s) ==
    IF s # <<>> /\ Head(s) \in Whitespace THEN LStrip(Tail(s)) ELSE s

RECURSIVE RStrip(_)
RStrip(s) ==
    IF s # <<>> /\ s[Len(s)] \in Whitespace
    THEN RStrip(SubSeq(s, 1, Len(s) - 1))
    ELSE s

\* str.strip
Strip(s) == RStrip(LStrip(s))

\* str.endswith
EndsWith(s, suffix) ==
    /\ Len(s) >= Len(suffix)
    /\ SubSeq(s, Len(s) - Len(suffix) + 1, Len(s)) = suffix

\* "sep".join(parts)
RECURSIVE Join(_, _)
Join(parts, sep) ==
    IF parts = <<>> THEN <<>>
    ELSE IF Len(parts) = 1 THEN parts[1]
    ELSE parts[1] \o sep \o Join(Tail(parts), sep)

Digit(d) ==
    CASE d = 0 -> "0" [] d = 1 -> "1" [] d = 2 -> "2" [] d = 3 -> "3"
      [] d = 4 -> "4" [] d = 5 -> "5" [] d = 6 -> "6" [] d = 7 -> "7"
      [] d = 8 -> "8" [] d = 9 -> "9"

\* f"{n}" for a natural number
RECURSIVE IntStr(_)
IntStr(n) ==
    IF n < 10 THEN <<Digit(n)>> ELSE IntStr(n \div 10) \o <<Digit(n % 10)>>

\* Python's None.
None == [py |-> "None"]

\* ------------------------------------------------- the engines' objects

\* An attribute of an engine object: missing, a str, or some other object
\* (None, a number, an enum without str methods).
Absent == [kind |-> "absent"]
Obj == [kind |-> "obj"]
Str(s) == [kind |-> "str", val |-> s]

\* The label strings of the mapping table, and labels outside it.
L_title == <<"t", "i", "t", "l", "e">>
L_heading == <<"h", "e", "a", "d", "i", "n", "g">>
L_paragraph == <<"p", "a", "r", "a", "g", "r", "a", "p", "h">>
L_text == <<"t", "e", "x", "t">>
L_table == <<"t", "a", "b", "l", "e">>
L_figure == <<"f", "i", "g", "u", "r", "e">>
L_list == <<"l", "i", "s", "t">>
L_caption == <<"c", "a", "p", "t", "i", "o", "n">>
L_Heading == <<"H", "e", "a", "d", "i", "n", "g">>
L_TITLE == <<"T", "I", "T", "L", "E">>
L_footnote == <<"f", "o", "o", "t", "n", "o", "t", "e">>
L_empty == <<>>

\* A bounding box of the engine (bbox.l, bbox.t, bbox.r, bbox.b).
EngineBox == [kind |-> "box", l |-> 1, t |-> 2, r |-> 3, b |-> 4]

\* str(item) of an engine item that has no text attribute.
ItemRepr == <<"<", "i", "t", "e", "m", ">">>

\* ------------------------------------------------------ DoclingExtractor

model_name == "docling"

BoundingBox(x0, y0, x1, y1, page) ==
    [x0 |-> x0, y0 |-> y0, x1 |-> x1, y1 |-> y1, page |-> page]

ExtractedElement(type, content, bbox, page, confidence) ==
    [type |-> type, content |-> content, bbox |-> bbox, page |-> page,
     confidence |-> confidence]

\* ExtractedElement.to_dict (BoundingBox.to_dict keeps the five fields).
to_dict(e) ==
    [type |-> e.type, content |-> e.content,
     bbox |-> IF e.bbox # None THEN e.bbox ELSE None,
     page |-> e.page, confidence |-> e.confidence]

mapping ==
    (L_title :> "title") @@ (L_heading :> "header") @@
    (L_paragraph :> "paragraph") @@ (L_text :> "paragraph") @@
    (L_table :> "table") @@ (L_figure :> "figure") @@
    (L_list :> "list") @@ (L_caption :> "caption")

\* Mutant: the label is looked up as it comes, without .lower().
_map_docling_type_NoLower(docling_label) ==
    IF docling_label \in DOMAIN mapping
    THEN mapping[docling_label]
    ELSE "paragraph"

\* mapping.get(docling_label.lower(), "paragraph"), docling_label a str
_map_docling_type(docling_label) ==
    IF Lower(docling_label) \in DOMAIN mapping
    THEN mapping[Lower(docling_label)]
    ELSE "paragraph"

\* Lines 144-166 raise on this item: .lower() on a label that is no str, or
\* .strip() on a text that is no str (AttributeError).
ItemRaises(item) ==
    \/ item.label.kind = "obj"
    \/ item.text.kind = "obj"

\* Lines 144-166 for one item that does not raise.
ParseItem(item, page_num) ==
    LET label == IF item.label.kind = "absent" THEN L_paragraph
                 ELSE item.label.val
        content == IF item.text.kind = "str" THEN item.text.val ELSE ItemRepr
        bbox == IF item.bbox.kind = "box"
                THEN BoundingBox(item.bbox.l, item.bbox.t, item.bbox.r,
                                 item.bbox.b, page_num)
                ELSE None
    IN ExtractedElement(_map_docling_type(label), Strip(content), bbox,
                        page_num, None)

\* The loop of lines 143-169: the elements appended before an item raises.
RECURSIVE ParseLoop(_, _)
ParseLoop(items, elements) ==
    IF items = <<>> THEN [elements |-> elements, raised |-> FALSE]
    ELSE IF ItemRaises(Head(items))
    THEN [elements |-> elements, raised |-> TRUE]
    ELSE ParseLoop(Tail(items), Append(elements, ParseItem(Head(items), 1)))

\* result is what converter.convert returned: result.document is missing or
\* None ("nodoc"), or a document whose iterate_items() raises ("broken"), or
\* a document with its items ("doc").  Returns the elements and the lines
\* logged; an exception inside the try is logged and swallowed.
_parse_docling_output(result) ==
    IF result.kind = "nodoc"
    THEN [elements |-> <<>>,
          log |-> <<"Docling result has no document attribute!">>]
    ELSE IF result.kind = "broken"
    THEN [elements |-> <<>>, log |-> <<"Error parsing Docling output">>]
    ELSE LET r == ParseLoop(result.items, <<>>)
         IN [elements |-> r.elements,
             log |-> IF r.raised THEN <<"Error parsing Docling output">>
                     ELSE <<"Parsed elements from Docling output">>]

\* Mutant: the chain stops at "figure", as the chain of _calculate_stats
\* does, and a caption adds no part.
MarkdownPart_NoCaption(element) ==
    CASE element.type = "title" -> <<<<"#", " ">> \o element.content \o <<NL>>>>
      [] element.type = "header" ->
            <<<<"#", "#", " ">> \o element.content \o <<NL>>>>
      [] element.type = "paragraph" -> <<element.content \o <<NL>>>>
      [] element.type = "list" -> <<<<"-", " ">> \o element.content \o <<NL>>>>
      [] element.type = "table" -> <<<<NL>> \o element.content \o <<NL>>>>
      [] element.type = "figure" ->
            <<<<"!", "[", "F", "i", "g", "u", "r", "e", "]", "(">>
              \o element.content \o <<")", NL>>>>
      [] OTHER -> <<>>

\* The f-string of one element (lines 197-210); no part for a type outside
\* the if/elif chain.
MarkdownPart(element) ==
    CASE element.type = "title" -> <<<<"#", " ">> \o element.content \o <<NL>>>>
      [] element.type = "header" ->
            <<<<"#", "#", " ">> \o element.content \o <<NL>>>>
      [] element.type = "paragraph" -> <<element.content \o <<NL>>>>
      [] element.type = "list" -> <<<<"-", " ">> \o element.content \o <<NL>>>>
      [] element.type = "table" -> <<<<NL>> \o element.content \o <<NL>>>>
      [] element.type = "figure" ->
            <<<<"!", "[", "F", "i", "g", "u", "r", "e", "]", "(">>
              \o element.content \o <<")", NL>>>>
      [] element.type = "caption" ->
            <<<<"*">> \o element.content \o <<"*", NL>>>>
      [] OTHER -> <<>>

RECURSIVE MarkdownParts(_)
MarkdownParts(elements) ==
    IF elements = <<>> THEN <<>>
    ELSE MarkdownPart(Head(elements)) \o MarkdownParts(Tail(elements))

_generate_markdown(elements) == Join(MarkdownParts(elements), <<NL>>)

RECURSIVE MaxOf(_)
MaxOf(ns) ==
    IF Len(ns) = 1 THEN ns[1]
    ELSE LET m == MaxOf(Tail(ns)) IN IF ns[1] >= m THEN ns[1] ELSE m

\* Mutant: the loop ends in an else branch that counts every other type,
\* caption included, as a paragraph.
Count_ElseParagraph(elements, type) ==
    Cardinality({i \in 1..Len(elements) :
        \/ elements[i].type = type
        \/ type = "paragraph" /\ elements[i].type = "caption"})

\* Lines 227-239: the counter the loop increments for elements of one type.
Count(elements, type) ==
    Cardinality({i \in 1..Len(elements) : elements[i].type = type})

\* Mutant: the pages are counted as the elements are.
total_pages_Count(elements) == Len(elements)

\* Line 224.
total_pages(elements) ==
    IF elements # <<>>
    THEN MaxOf([i \in 1..Len(elements) |-> elements[i].page])
    ELSE 1

_calculate_stats(elements) ==
    [total_elements |-> Len(elements),
     titles |-> Count(elements, "title"),
     headers |-> Count(elements, "header"),
     paragraphs |-> Count(elements, "paragraph"),
     tables |-> Count(elements, "table"),
     figures |-> Count(elements, "figure"),
     lists |-> Count(elements, "list"),
     total_pages |-> total_pages(elements)]

\* Lines 95-117: the envelope of a primary success.
PrimaryEnvelope(filename, elements, ms) ==
    LET stats == _calculate_stats(elements)
    IN [status |-> "success",
        model |-> model_name,
        filename |-> filename,
        markdown |-> _generate_markdown(elements),
        elements |-> [i \in 1..Len(elements) |-> to_dict(elements[i])],
        statistics |-> stats,
        processing_time_ms |-> ms,
        metadata |-> [total_pages |-> stats.total_pages,
                      total_elements |-> Len(elements)]]

\* ---------------------------------------------------------- exceptions

\* A raised exception: its class and str(e).  Every class below derives
\* from Exception.
Raise(type, msg) == [type |-> type, msg |-> msg]

\* isinstance(exc, cls)
IsInstance(exc, cls) == cls = exc.type \/ cls = "Exception"

\* The except clauses of extract (lines 119-124): the line logged before
\* _fallback_extraction is called, or "propagate" when no clause matches.
ExtractExcept(exc) ==
    IF IsInstance(exc, "ImportError") THEN "Docling not installed"
    ELSE IF IsInstance(exc, "Exception") THEN "Docling extraction failed"
    ELSE "propagate"

\* Mutant: the clause names the reader's errors only.
FallbackExcept_ReaderErrors(exc) ==
    IsInstance(exc, "PdfStreamError") \/ IsInstance(exc, "PdfReadError")

\* The except clause of _fallback_extraction (line 290).
FallbackExcept(exc) == IsInstance(exc, "Exception")

\* ----------------------------------------------------- fallback (pypdf)

\* Mutant: the text is tested without .strip().
PageHasText_NoStrip(text) == text # <<>>

\* Line 259: if text.strip().
PageHasText(text) == Strip(text) # <<>>

\* The loop of lines 256-268 over reader.pages, pages[n] being what
\* extract_text() returns for page n: one element and one markdown part for
\* each page whose stripped text is not empty.
RECURSIVE FallbackLoop(_, _, _, _)
FallbackLoop(pages, page_num, elements, markdown_parts) ==
    IF page_num > Len(pages)
    THEN [elements |-> elements, markdown_parts |-> markdown_parts]
    ELSE LET text == pages[page_num]
         IN IF PageHasText(text)
            THEN FallbackLoop(pages, page_num + 1,
                     Append(elements,
                            ExtractedElement("paragraph", Strip(text), None,
                                             page_num, None)),
                     Append(markdown_parts,
                            <<"#", "#", " ", "P", "a", "g", "e", " ">>
                              \o IntStr(page_num) \o <<NL, NL>> \o text
                              \o <<NL>>))
            ELSE FallbackLoop(pages, page_num + 1, elements, markdown_parts)

\* Lines 273-288: the envelope of a fallback success.
FallbackEnvelope(filename, pages, elements, markdown_parts, ms) ==
    [status |-> "success",
     model |-> "pypdf_fallback",
     filename |-> filename,
     markdown |-> Join(markdown_parts, <<NL>>),
     elements |-> [i \in 1..Len(elements) |-> to_dict(elements[i])],
     statistics |-> [total_elements |-> Len(elements),
                     total_pages |-> Len(pages),
                     paragraphs |-> Len(elements)],
     processing_time_ms |-> ms,
     metadata |-> [note |-> "Fallback extraction used (Docling unavailable)"]]

\* Mutant: the error envelope keeps what the loop had gathered.
ErrorEnvelope_Partial(filename, e, ms) ==
    [status |-> "error",
     model |-> model_name,
     filename |-> filename,
     markdown |-> <<>>,
     elements |-> <<>>,
     error |-> e.msg,
     processing_time_ms |-> ms]

\* Lines 294-300: the envelope of a fallback failure.
ErrorEnvelope(filename, e, ms) ==
    [status |-> "error",
     model |-> model_name,
     filename |-> filename,
     error |-> e.msg,
     processing_time_ms |-> ms]

\* What the try block of _fallback_extraction raises, if anything, given
\* whether pypdf can be imported and what extract_text() raises on some
\* page (None: on no page): import pypdf (246), PdfReader on bytes that are
\* no PDF (251), page.extract_text() (257).
FallbackRaises(pdf_bytes, pypdf_installed, page_exc) ==
    IF ~pypdf_installed
    THEN Raise("ImportError", "No module named 'pypdf'")
    ELSE IF ~pdf_bytes.valid
    THEN Raise("PdfStreamError", "Stream has ended unexpectedly")
    ELSE IF pdf_bytes.pages # <<>>
    THEN page_exc
    ELSE None

\* ------------------------------------------------------------- inputs

\* Uploaded bytes: len(contents), whether they are a PDF at all, and what
\* the fallback reader finds in them: for each page the str that
\* extract_text() returns.
Payload(size, valid, pages) == [size |-> size, valid |-> valid, pages |-> pages]

max_size == 50 * 1024 * 1024

ASCII_a == <<"a">>
F_pdf == <<"a", ".", "p", "d", "f">>
F_txt == <<"a", ".", "t", "x", "t">>
FileNames == {F_pdf, F_txt}

Models == {"docling", "surya", "mineru"}

Item(label, text, bbox) == [label |-> label, text |-> text, bbox |-> bbox]

NoDocument == [kind |-> "nodoc"]
BrokenDocument == [kind |-> "broken"]
Document(items) == [kind |-> "doc", items |-> items]

SeqsUpTo(S, n) == UNION {[1..k -> S] : k \in 0..n}

\* The service's inputs: a handful of uploads and of conversion results.
CorePayloads ==
    {Payload(4, FALSE, <<>>),
     Payload(max_size, TRUE, <<ASCII_a>>),
     Payload(max_size + 1, TRUE, <<ASCII_a>>)}

CoreResults ==
    {NoDocument, BrokenDocument,
     Document(<<Item(Str(L_Heading), Str(ASCII_a), EngineBox)>>),
     Document(<<Item(Str(L_text), Str(ASCII_a), Absent),
                Item(Obj, Str(ASCII_a), Absent)>>)}

\* What extract_text() may raise on a page: nothing, an assertion without
\* message, a reader error.
PageErrors ==
    {None, Raise("AssertionError", ""), Raise("PdfReadError", "Invalid page")}

\* round((time.time() - start_time) * 1000, 2): the clock is not modelled,
\* every elapsed time is the one value.
Elapsed == {0}

\* --------------------------------------------------------------- state

VARIABLES
    req,        \* per call: the request received
    pc,         \* per call: where the handler stands
    files,      \* the names in the temporary directory
    tmp,        \* per call: the NamedTemporaryFile while it is staged
    result,     \* per call: what converter.convert returned
    exc,        \* per call: the exception in flight or being handled
    log,        \* per call: the lines logged, in order
    envelope,   \* per call: what extract returned
    response    \* per call: the HTTP response

vars == <<req, pc, files, tmp, result, exc, log, envelope, response>>

NoRequest == [endpoint |-> "none"]
NoResult == [kind |-> "none"]
NoEnvelope == [status |-> "none"]
NoResponse == [status_code |-> 0]

HTTPException(status_code, detail) ==
    [status_code |-> status_code, detail |-> detail]

JSONResponse(content) == [status_code |-> 200, content |-> content]

Init ==
    /\ req = [c \in Calls |-> NoRequest]
    /\ pc = [c \in Calls |-> "idle"]
    /\ files = {}
    /\ tmp = [c \in Calls |-> None]
    /\ result = [c \in Calls |-> NoResult]
    /\ exc = [c \in Calls |-> None]
    /\ log = [c \in Calls |-> <<>>]
    /\ envelope = [c \in Calls |-> NoEnvelope]
    /\ response = [c \in Calls |-> NoResponse]

\* ----------------------------------------------------------- main.py

\* The checks of upload_pdf (lines 124-144): the HTTPException raised, or
\* None.
UploadRejection(filename, contents, model) ==
    IF ~EndsWith(filename, <<".", "p", "d", "f">>)
    THEN HTTPException(400, "Only PDF files are supported")
    ELSE IF contents.size > max_size
    THEN HTTPException(400, "File size exceeds maximum allowed size")
    ELSE IF model \notin {"docling"}
    THEN HTTPException(400, "Invalid model. Currently available: docling")
    ELSE None

\* Mutant: every model name is routed to the one extractor.
ExtractRejection_RouteAll(filename, contents, model) ==
    IF ~EndsWith(filename, <<".", "p", "d", "f">>)
    THEN HTTPException(400, "Only PDF files are supported")
    ELSE IF contents.size > max_size
    THEN HTTPException(400, "File too large")
    ELSE None

\* The checks of extract_pdf (lines 183-206): the HTTPException raised, or
\* None when the request goes to DoclingExtractor.
ExtractRejection(filename, contents, model) ==
    IF ~EndsWith(filename, <<".", "p", "d", "f">>)
    THEN HTTPException(400, "Only PDF files are supported")
    ELSE IF contents.size > max_size
    THEN HTTPException(400, "File too large")
    ELSE IF model = "docling"
    THEN None
    ELSE HTTPException(400, "Model not implemented yet. Use 'docling'.")

\* POST /upload, the whole handler.
upload_pdf(c) ==
    /\ pc[c] = "idle"
    /\ \E filename \in FileNames, contents \in CorePayloads, model \in Models :
          /\ req' = [req EXCEPT ![c] =
                       [endpoint |-> "/upload", filename |-> filename,
                        model |-> model, contents |-> contents]]
          /\ response' = [response EXCEPT ![c] =
                LET rej == UploadRejection(filename, contents, model)
                IN IF rej # None THEN rej
                   ELSE JSONResponse(
                          [status |-> "success",
                           file_info |-> [filename |-> filename,
                                          size_bytes |-> contents.size,
                                          model_selected |-> model]])]
    /\ pc' = [pc EXCEPT ![c] = "done"]
    /\ UNCHANGED <<files, tmp, result, exc, log, envelope>>

\* POST /extract up to the call of extractor.extract (lines 181-201):
\* rejected, or DoclingExtractor() is built (line 58 logs) and extract
\* entered.
extract_pdf(c) ==
    /\ pc[c] = "idle"
    /\ \E filename \in FileNames, contents \in CorePayloads, model \in Models :
          /\ req' = [req EXCEPT ![c] =
                       [endpoint |-> "/extract", filename |-> filename,
                        model |-> model, contents |-> contents]]
          /\ LET rej == ExtractRejection(filename, contents, model)
             IN IF rej # None
                THEN /\ response' = [response EXCEPT ![c] = rej]
                     /\ pc' = [pc EXCEPT ![c] = "done"]
                     /\ log' = log
                ELSE /\ response' = response
                     /\ pc' = [pc EXCEPT ![c] = "import"]
                     /\ log' = [log EXCEPT ![c] =
                                  <<"Initializing docling extractor">>]
    /\ UNCHANGED <<files, tmp, result, exc, envelope>>

\* extract_pdf after extract returned or raised (lines 208-214).
respond(c) ==
    /\ pc[c] \in {"returned", "raised"}
    /\ response' = [response EXCEPT ![c] =
          IF pc[c] = "returned" THEN JSONResponse(envelope[c])
          ELSE HTTPException(500, "Extraction failed")]
    /\ pc' = [pc EXCEPT ![c] = "done"]
    /\ UNCHANGED <<req, files, tmp, result, exc, log, envelope>>

\* ------------------------------------------- DoclingExtractor.extract

\* Mutant: a failed primary attempt is tried again.
Except_Retry(c, e) ==
    /\ pc' = [pc EXCEPT ![c] = "import"]
    /\ log' = log

\* An exception e reaches the except clauses of extract (lines 119-124).
Except(c, e) ==
    IF ExtractExcept(e) = "propagate"
    THEN /\ pc' = [pc EXCEPT ![c] = "raised"]
         /\ log' = log
    ELSE /\ pc' = [pc EXCEPT ![c] = "fallback"]
         /\ log' = [log EXCEPT ![c] = Append(@, ExtractExcept(e))]

\* Line 75: from docling.document_converter import DocumentConverter.
import_docling(c) ==
    /\ pc[c] = "import"
    /\ \/ /\ pc' = [pc EXCEPT ![c] = "converter"]
          /\ log' = [log EXCEPT ![c] = Append(@, "Starting Docling extraction")]
       \/ Except(c, Raise("ImportError", "No module named 'docling'"))
    /\ UNCHANGED <<req, files, tmp, result, exc, envelope, response>>

\* Line 80: converter = DocumentConverter().
DocumentConverter(c) ==
    /\ pc[c] = "converter"
    /\ \/ /\ pc' = [pc EXCEPT ![c] = "mktemp"]
          /\ log' = log
       \/ Except(c, Raise("RuntimeError", "cannot load models"))
    /\ UNCHANGED <<req, files, tmp, result, exc, envelope, response>>

\* Mutant: a name is picked without looking at the directory.
FreshNames_AnyName(existing) == TmpNames

\* The names tempfile may give a new file: any name not in the directory
\* (the file is created with O_EXCL).
FreshNames(existing) == TmpNames \ existing

\* Line 85: tmp = tempfile.NamedTemporaryFile(suffix=".pdf", delete=False).
NamedTemporaryFile(c) ==
    /\ pc[c] = "mktemp"
    /\ \/ \E name \in FreshNames(files) :
             /\ files' = files \cup {name}
             /\ tmp' = [tmp EXCEPT ![c] = [name |-> name]]
             /\ pc' = [pc EXCEPT ![c] = "write"]
             /\ log' = log
       \/ /\ Except(c, Raise("OSError", "No usable temporary file name"))
          /\ UNCHANGED <<files, tmp>>
    /\ UNCHANGED <<req, result, exc, envelope, response>>

\* Lines 87-88: tmp.write(pdf_bytes); tmp.close().
write(c) ==
    /\ pc[c] = "write"
    /\ \/ /\ pc' = [pc EXCEPT ![c] = "convert"]
          /\ exc' = exc
       \/ /\ pc' = [pc EXCEPT ![c] = "unlink"]
          /\ exc' = [exc EXCEPT ![c] = Raise("OSError", "No space left on device")]
    /\ UNCHANGED <<req, files, tmp, result, log, envelope, response>>

\* Line 89: result = converter.convert(tmp.name).
convert(c) ==
    /\ pc[c] = "convert"
    /\ \/ /\ req[c].contents.valid
          /\ \E r \in CoreResults : result' = [result EXCEPT ![c] = r]
          /\ exc' = exc
       \/ /\ exc' = [exc EXCEPT ![c] = Raise("ConversionError", "Conversion failed")]
          /\ result' = result
    /\ pc' = [pc EXCEPT ![c] = "unlink"]
    /\ UNCHANGED <<req, files, tmp, log, envelope, response>>

\* The tmp files left when the call's finally block has run.
Unlinked(existing, t) == existing \ {t.name}

\* Lines 90-91: finally: os.unlink(tmp.name), then on to line 95 or to the
\* except clauses with the exception in flight.
unlink(c) ==
    /\ pc[c] = "unlink"
    /\ files' = Unlinked(files, tmp[c])
    /\ tmp' = [tmp EXCEPT ![c] = None]
    /\ exc' = [exc EXCEPT ![c] = None]
    /\ IF exc[c] = None
       THEN /\ pc' = [pc EXCEPT ![c] = "parse"]
            /\ log' = log
       ELSE Except(c, exc[c])
    /\ UNCHANGED <<req, result, envelope, response>>

\* Lines 95-117: parse, markdown, statistics, return.
normalize(c) ==
    /\ pc[c] = "parse"
    /\ \E ms \in Elapsed :
          envelope' = [envelope EXCEPT ![c] =
              PrimaryEnvelope(req[c].filename,
                              _parse_docling_output(result[c]).elements, ms)]
    /\ log' = [log EXCEPT ![c] = @ \o _parse_docling_output(result[c]).log]
    /\ pc' = [pc EXCEPT ![c] = "returned"]
    /\ UNCHANGED <<req, files, tmp, result, exc, response>>

\* Lines 243-300.
_fallback_extraction(c) ==
    /\ pc[c] = "fallback"
    /\ \E pypdf_installed \in BOOLEAN, page_exc \in PageErrors, ms \in Elapsed :
          LET pdf_bytes == req[c].contents
              e == FallbackRaises(pdf_bytes, pypdf_installed, page_exc)
              loop == FallbackLoop(pdf_bytes.pages, 1, <<>>, <<>>)
              started == IF pypdf_installed
                         THEN <<"Using PyPDF fallback extraction">> ELSE <<>>
          IN IF e = None
             THEN /\ envelope' = [envelope EXCEPT ![c] =
                        FallbackEnvelope(req[c].filename, pdf_bytes.pages,
                                         loop.elements, loop.markdown_parts, ms)]
                  /\ exc' = exc
                  /\ log' = [log EXCEPT ![c] = @ \o started]
                  /\ pc' = [pc EXCEPT ![c] = "returned"]
             ELSE IF FallbackExcept(e)
             THEN /\ envelope' = [envelope EXCEPT ![c] =
                        ErrorEnvelope(req[c].filename, e, ms)]
                  /\ exc' = [exc EXCEPT ![c] = e]
                  /\ log' = [log EXCEPT ![c] =
                        @ \o started \o <<"Fallback extraction also failed">>]
                  /\ pc' = [pc EXCEPT ![c] = "returned"]
             ELSE /\ envelope' = envelope
                  /\ exc' = [exc EXCEPT ![c] = e]
                  /\ log' = [log EXCEPT ![c] = @ \o started]
                  /\ pc' = [pc EXCEPT ![c] = "raised"]
    /\ UNCHANGED <<req, files, tmp, result, response>>

Next ==
    \E c \in Calls :
        \/ upload_pdf(c)
        \/ extract_pdf(c)
        \/ import_docling(c)
        \/ DocumentConverter(c)
        \/ NamedTemporaryFile(c)
        \/ write(c)
        \/ convert(c)
        \/ unlink(c)
        \/ normalize(c)
        \/ _fallback_extraction(c)
        \/ respond(c)

Spec == Init /\ [][Next]_vars

\* The steps of extract for one call: straight-line code between engine
\* calls, which goes on whenever the engine call it waits for returns.
ExtractStep(c) ==
    \/ import_docling(c)
    \/ DocumentConverter(c)
    \/ NamedTemporaryFile(c)
    \/ write(c)
    \/ convert(c)
    \/ unlink(c)
    \/ normalize(c)
    \/ _fallback_extraction(c)

\* A request the gateway turns away, and its answer.
RejectedRequest ==
    [endpoint |-> "/extract", filename |-> F_txt, model |-> "docling",
     contents |-> Payload(4, FALSE, <<>>)]

\* Call 1 has not arrived; the other calls were turned away and answered.
InitExecution ==
    /\ req = [c \in Calls |-> IF c = 1 THEN NoRequest ELSE RejectedRequest]
    /\ pc = [c \in Calls |-> IF c = 1 THEN "idle" ELSE "done"]
    /\ files = {}
    /\ tmp = [c \in Calls |-> None]
    /\ result = [c \in Calls |-> NoResult]
    /\ exc = [c \in Calls |-> None]
    /\ log = [c \in Calls |-> <<>>]
    /\ envelope = [c \in Calls |-> NoEnvelope]
    /\ response = [c \in Calls |->
          IF c = 1 THEN NoResponse
          ELSE ExtractRejection(RejectedRequest.filename,
                                RejectedRequest.contents,
                                RejectedRequest.model)]

\* One execution of the handlers, every engine call of which returns.
ExecutionSpec ==
    InitExecution /\ [][Next]_vars /\ \A c \in Calls : WF_vars(ExtractStep(c))

\* ------------------------------------- the normalizer on richer inputs

\* Labels an engine item may carry.
Labels ==
    {L_title, L_heading, L_paragraph, L_text, L_table, L_figure, L_list,
     L_caption, L_Heading, L_TITLE, L_footnote, L_empty}

Txt_a == <<" ", "a", " ">>
Txt_b == <<"b", NL>>
Txt_blank == <<" ", NL>>

\* Items: every label on a padded text, a missing label, a label and a text
\* that are no str, a missing text, an empty text, a box, a box that is None.
Items ==
    {Item(Str(l), Str(Txt_a), Absent) : l \in Labels}
      \cup {Item(Absent, Str(ASCII_a), Absent),
            Item(Obj, Str(ASCII_a), Absent),
            Item(Str(L_text), Absent, Absent),
            Item(Str(L_text), Obj, Absent),
            Item(Str(L_table), Str(Txt_b), EngineBox),
            Item(Str(L_figure), Str(<<>>), [kind |-> "None"])}

Results ==
    {NoDocument, BrokenDocument}
      \cup {Document(items) : items \in SeqsUpTo(Items, MaxItems)}

\* Pages: no text, blank text, text, padded text.
Pages == {<<>>, Txt_blank, ASCII_a, Txt_a}

Payloads ==
    {Payload(4, FALSE, <<>>)}
      \cup {Payload(1024, TRUE, pages) : pages \in SeqsUpTo(Pages, MaxPages)}

AcceptedRequest(contents) ==
    [endpoint |-> "/extract", filename |-> F_pdf, model |-> "docling",
     contents |-> contents]

\* Call 1 stands at line 95 with any conversion result, or at line 243 with
\* any payload; the other calls have not arrived.
InitNormalizer ==
    /\ \/ /\ req = [c \in Calls |-> IF c = 1
                       THEN AcceptedRequest(Payload(1024, TRUE, <<>>))
                       ELSE NoRequest]
          /\ pc = [c \in Calls |-> IF c = 1 THEN "parse" ELSE "idle"]
          /\ \E r \in Results :
                result = [c \in Calls |-> IF c = 1 THEN r ELSE NoResult]
          /\ log = [c \in Calls |-> IF c = 1
                       THEN <<"Initializing docling extractor",
                              "Starting Docling extraction">>
                       ELSE <<>>]
       \/ /\ \E contents \in Payloads :
                req = [c \in Calls |-> IF c = 1 THEN AcceptedRequest(contents)
                                       ELSE NoRequest]
          /\ pc = [c \in Calls |-> IF c = 1 THEN "fallback" ELSE "idle"]
          /\ result = [c \in Calls |-> NoResult]
          /\ log = [c \in Calls |-> IF c = 1
                       THEN <<"Initializing docling extractor",
                              "Docling not installed">>
                       ELSE <<>>]
    /\ files = {}
    /\ tmp = [c \in Calls |-> None]
    /\ exc = [c \in Calls |-> None]
    /\ envelope = [c \in Calls |-> NoEnvelope]
    /\ response = [c \in Calls |-> NoResponse]

NextNormalizer ==
    \E c \in Calls :
        \/ normalize(c)
        \/ _fallback_extraction(c)
        \/ respond(c)

NormalizerSpec == InitNormalizer /\ [][NextNormalizer]_vars

\* ---------------------------------------------------------- properties

InLog(c, line) == \E i \in 1..Len(log[c]) : log[c][i] = line

\* extract has returned an envelope to the call.
Returned(c) == envelope[c].status # "none"

\* extract was entered by the call.
Invoked(c) == log[c] # <<>>

Staged(c) == tmp[c] # None

\* C1: for every payload, filename and outcome of the engines, extract
\* returns an envelope whose status is "success" or "error"; no exception
\* escapes extract (so /extract never answers 500 for it).
C1_ExtractNeverRaises ==
    \A c \in Calls :
        /\ pc[c] # "raised"
        /\ pc[c] \in {"returned", "done"} /\ Invoked(c)
              => /\ envelope[c].status \in {"success", "error"}
                 /\ pc[c] = "done" => response[c] = JSONResponse(envelope[c])

\* C1 witness: the primary engine raised, the fallback raised too, and
\* extract returned an error envelope.
C1_Witness ==
    \E c \in Calls :
        /\ pc[c] = "returned"
        /\ InLog(c, "Docling extraction failed")
        /\ InLog(c, "Fallback extraction also failed")
        /\ envelope[c].status = "error"

\* An item of the converted document made lines 144-166 raise.
ItemFailed(c) ==
    /\ result[c].kind = "doc"
    /\ \E i \in 1..Len(result[c].items) : ItemRaises(result[c].items[i])

\* C2: a run in which conversion or parsing raised never returns a primary
\* success envelope (model "docling"); it goes to the fallback.
C2_PrimaryExceptionRoutesToFallback ==
    \A c \in Calls :
        Returned(c) /\ (InLog(c, "Docling extraction failed") \/ ItemFailed(c))
            => ~(envelope[c].status = "success" /\ envelope[c].model = "docling")

\* The primary engine was unavailable or raised for the call's payload:
\* the import, the converter, the staging or convert raised, or the
\* document's iterate_items() did.
PrimaryFailed(c) ==
    \/ InLog(c, "Docling not installed")
    \/ InLog(c, "Docling extraction failed")
    \/ result[c].kind = "broken"

\* C3: the (status, model) pairs of a returned envelope are (success,
\* docling) with no primary failure, and (success, pypdf_fallback) or
\* (error, docling) after a primary failure.
C3_ModelNamesEngineUsed ==
    \A c \in Calls :
        Returned(c) =>
            IF PrimaryFailed(c)
            THEN <<envelope[c].status, envelope[c].model>>
                    \in {<<"success", "pypdf_fallback">>, <<"error", "docling">>}
            ELSE <<envelope[c].status, envelope[c].model>>
                    = <<"success", "docling">>

\* C4: in every interleaving a call's temp file exists exactly from its
\* creation to the end of its finally block, on every path; staged calls
\* hold different names; every file in the directory is a staged call's, so
\* no call removed another's and none is left when all calls are through.
C4_TempFileScoped ==
    /\ \A c \in Calls : Staged(c) <=> pc[c] \in {"write", "convert", "unlink"}
    /\ \A c \in Calls : Staged(c) => tmp[c].name \in files
    /\ \A c, d \in Calls :
          c # d /\ Staged(c) /\ Staged(d) => tmp[c].name # tmp[d].name
    /\ files = {tmp[c].name : c \in {d \in Calls : Staged(d)}}

\* C4 witness: two calls have staged files at once, one of them with an
\* exception of write or convert in flight.
C4_Witness ==
    \E c, d \in Calls :
        /\ c # d
        /\ pc[c] = "unlink" /\ exc[c] # None
        /\ pc[d] = "convert"

Vocabulary ==
    {"title", "header", "paragraph", "table", "figure", "list", "caption"}

\* The type the mapping table gives each label of Labels, written out.
TableEntry(label) ==
    CASE label \in {L_title, L_TITLE} -> "title"
      [] label \in {L_heading, L_Heading} -> "header"
      [] label \in {L_paragraph, L_text} -> "paragraph"
      [] label = L_table -> "table"
      [] label = L_figure -> "figure"
      [] label = L_list -> "list"
      [] label = L_caption -> "caption"
      [] OTHER -> "paragraph"

PrimarySuccess(c) ==
    Returned(c) /\ envelope[c].status = "success" /\ envelope[c].model = "docling"

FallbackSuccess(c) ==
    /\ Returned(c)
    /\ envelope[c].status = "success"
    /\ envelope[c].model = "pypdf_fallback"

\* C5: an element's type is the table entry of its item's lower-cased label
\* ("Heading" gives header), and paragraph for a label outside the table
\* ("footnote") or a missing label; every element of a success envelope,
\* primary or fallback, has a type of the vocabulary.
C5_TypeFromMappingTable ==
    \A c \in Calls :
        Returned(c) /\ envelope[c].status = "success" =>
            \A i \in 1..Len(envelope[c].elements) :
                /\ envelope[c].elements[i].type \in Vocabulary
                /\ envelope[c].model = "docling" =>
                      envelope[c].elements[i].type =
                          TableEntry(IF result[c].items[i].label.kind = "str"
                                     THEN result[c].items[i].label.val
                                     ELSE L_paragraph)

\* C5 witness: a primary success whose items are labelled "Heading" and
\* "footnote", typed header and paragraph.
C5_Witness ==
    \E c \in Calls :
        /\ PrimarySuccess(c)
        /\ \E i, j \in 1..Len(envelope[c].elements) :
              /\ result[c].items[i].label = Str(L_Heading)
              /\ envelope[c].elements[i].type = "header"
              /\ result[c].items[j].label = Str(L_footnote)
              /\ envelope[c].elements[j].type = "paragraph"

\* C6: in a primary success statistics.total_pages is the largest page of
\* the elements, or 1 when there are none; a result without document or
\* without items gives success with no elements and total_pages 1;
\* metadata.total_pages equals statistics.total_pages.
C6_TotalPagesIsMaxPage ==
    \A c \in Calls :
        PrimarySuccess(c) =>
            LET els == envelope[c].elements
                n == envelope[c].statistics.total_pages
            IN /\ els # <<>> =>
                     /\ \E i \in 1..Len(els) : els[i].page = n
                     /\ \A i \in 1..Len(els) : els[i].page <= n
               /\ els = <<>> => n = 1
               /\ envelope[c].metadata.total_pages = n
               /\ result[c].kind = "nodoc"
                    \/ (result[c].kind = "doc" /\ result[c].items = <<>>)
                    => els = <<>> /\ n = 1

\* C6 witness: a primary success with two elements or more.
C6_Witness ==
    \E c \in Calls : PrimarySuccess(c) /\ Len(envelope[c].elements) >= 2

\* The rendering of one element as the claim lists it.
Rendering(e) ==
    CASE e.type = "title" -> <<"#", " ">> \o e.content
      [] e.type = "header" -> <<"#", "#", " ">> \o e.content
      [] e.type = "paragraph" -> e.content
      [] e.type = "list" -> <<"-", " ">> \o e.content
      [] e.type = "table" -> <<NL>> \o e.content
      [] e.type = "figure" ->
            <<"!", "[", "F", "i", "g", "u", "r", "e", "]", "(">>
              \o e.content \o <<")">>
      [] e.type = "caption" -> <<"*">> \o e.content \o <<"*">>

\* The renderings in order, each a line ended by its newline, a blank line
\* between consecutive ones.
RECURSIVE Rendered(_)
Rendered(els) ==
    IF els = <<>> THEN <<>>
    ELSE IF Len(els) = 1 THEN Rendering(els[1]) \o <<NL>>
    ELSE Rendering(els[1]) \o <<NL, NL>> \o Rendered(Tail(els))

\* C7: the markdown of a primary success is the renderings of its elements,
\* one for each element, in element order, a blank line between consecutive
\* ones; the elements are in the order of the engine's items.
C7_MarkdownInElementOrder ==
    \A c \in Calls :
        PrimarySuccess(c) =>
            /\ envelope[c].markdown = Rendered(envelope[c].elements)
            /\ \A i \in 1..Len(envelope[c].elements) :
                  envelope[c].elements[i] = to_dict(ParseItem(result[c].items[i], 1))

\* C7 witness: a primary success of a table followed by a caption.
C7_Witness ==
    \E c \in Calls :
        /\ PrimarySuccess(c)
        /\ Len(envelope[c].elements) >= 2
        /\ envelope[c].elements[1].type = "table"
        /\ envelope[c].elements[2].type = "caption"

\* The pages whose text has a character that is no whitespace.
TextPages(pages) ==
    {n \in 1..Len(pages) : \E k \in 1..Len(pages[n]) : pages[n][k] \notin Whitespace}

\* C8: in a fallback success over a reader of N pages total_pages is N; the
\* elements are one paragraph without box for each page of non-empty trimmed
\* text, in page order, page being the 1-based index, and none for the other
\* pages; total_elements = paragraphs = the number of elements <= N, and N
\* when every page has text.
C8_FallbackOneParagraphPerPage ==
    \A c \in Calls :
        FallbackSuccess(c) =>
            LET pages == req[c].contents.pages
                els == envelope[c].elements
                stats == envelope[c].statistics
            IN /\ stats.total_pages = Len(pages)
               /\ Len(els) = Cardinality(TextPages(pages))
               /\ {els[i].page : i \in 1..Len(els)} = TextPages(pages)
               /\ \A i, j \in 1..Len(els) : i < j => els[i].page < els[j].page
               /\ \A i \in 1..Len(els) :
                     els[i].type = "paragraph" /\ els[i].bbox = None
               /\ stats.total_elements = Len(els)
               /\ stats.paragraphs = Len(els)
               /\ Len(els) <= Len(pages)
               /\ TextPages(pages) = 1..Len(pages) => Len(els) = Len(pages)

\* C8 witness: a fallback success over two pages or more of which exactly
\* one has text.
C8_Witness ==
    \E c \in Calls :
        /\ FallbackSuccess(c)
        /\ Len(req[c].contents.pages) >= 2
        /\ Len(envelope[c].elements) = 1

\* The shape of the envelopes, but for the emptiness of "error".
EnvelopeShape(c) ==
    /\ envelope[c].status = "error" =>
          /\ "markdown" \notin DOMAIN envelope[c]
          /\ "elements" \notin DOMAIN envelope[c]
          /\ {"model", "filename", "processing_time_ms", "error"}
                \subseteq DOMAIN envelope[c]
          /\ envelope[c].error = exc[c].msg
          /\ InLog(c, "Docling not installed")
                \/ InLog(c, "Docling extraction failed")
    /\ envelope[c].status = "error" <=> InLog(c, "Fallback extraction also failed")
    /\ envelope[c].status = "success" =>
          /\ {"markdown", "elements"} \subseteq DOMAIN envelope[c]
          /\ "error" \notin DOMAIN envelope[c]

\* C9 as stated: an error envelope (returned exactly when the primary path
\* failed and the fallback raised) has no markdown and no elements key, has
\* model, filename, processing_time_ms and a non-empty error equal to the
\* str of the fallback's exception; a success envelope has markdown and
\* elements and no error key.
C9_ErrorIsNonEmpty ==
    \A c \in Calls :
        Returned(c) =>
            /\ EnvelopeShape(c)
            /\ envelope[c].status = "error" => envelope[c].error # ""

\* C9 amended: the same, the error string being the str of the fallback's
\* exception, empty when that exception has no message.
C9_ErrorEnvelopeShape ==
    \A c \in Calls : Returned(c) => EnvelopeShape(c)

\* C9 witness: an error envelope whose error string is empty.
C9_Witness ==
    \E c \in Calls :
        Returned(c) /\ envelope[c].status = "error" /\ envelope[c].error = ""

\* The request fails one of the three checks of /extract.
Invalid(r) ==
    \/ r.filename # F_pdf
    \/ r.contents.size > 52428800
    \/ r.model # "docling"

\* C10: an /extract request with a filename not ending in ".pdf", more than
\* 50 MB or a model other than "docling" is answered 400 and never reaches
\* extract; every other one (50 MB exactly included) reaches it and is not
\* answered 400; /upload never reaches it.
C10_InvalidRequestNeverReachesExtract ==
    \A c \in Calls :
        /\ req[c].endpoint = "/extract" /\ Invalid(req[c]) =>
              /\ response[c].status_code = 400
              /\ ~Invoked(c) /\ ~Returned(c)
        /\ req[c].endpoint = "/extract" /\ ~Invalid(req[c]) =>
              Invoked(c) /\ response[c].status_code # 400
        /\ req[c].endpoint = "/upload" => ~Invoked(c) /\ ~Returned(c)
        /\ Invoked(c) => req[c].endpoint = "/extract" /\ req[c].model = "docling"

\* C10 witness: one request for "surya" answered 400 and one of exactly
\* 50 MB answered with the envelope of extract.
C10_Witness ==
    \E c, d \in Calls :
        /\ req[c].endpoint = "/extract" /\ req[c].model = "surya"
        /\ req[c].filename = F_pdf /\ req[c].contents.size <= 52428800
        /\ response[c].status_code = 400
        /\ req[d].endpoint = "/extract" /\ req[d].contents.size = 52428800
        /\ response[d].status_code = 200 /\ response[d].content = envelope[d]

\* The state of the call's execution of extract.
Phase(c) ==
    CASE pc[c] \in {"import", "converter", "mktemp", "write", "convert",
                    "unlink", "parse"} -> "PrimaryAttempted"
      [] pc[c] = "fallback" -> "FallbackAttempted"
      [] pc[c] = "raised" -> "Raised"
      [] pc[c] \in {"returned", "done"} /\ envelope[c].status = "success" -> "Success"
      [] pc[c] \in {"returned", "done"} /\ envelope[c].status = "error" -> "Failed"
      [] OTHER -> "NotStarted"

\* The edges of the state machine, a step inside the primary attempt and
\* the answer to a request that never enters extract included.
Edges ==
    {<<"NotStarted", "NotStarted">>,
     <<"NotStarted", "PrimaryAttempted">>,
     <<"PrimaryAttempted", "PrimaryAttempted">>,
     <<"PrimaryAttempted", "Success">>,
     <<"PrimaryAttempted", "FallbackAttempted">>,
     <<"FallbackAttempted", "Success">>,
     <<"FallbackAttempted", "Failed">>,
     <<"Success", "Success">>,
     <<"Failed", "Failed">>}

\* The place of a line of the handler in program order.
Rank(p) ==
    CASE p = "idle" -> 0
      [] p = "import" -> 1
      [] p = "converter" -> 2
      [] p = "mktemp" -> 3
      [] p = "write" -> 4
      [] p = "convert" -> 5
      [] p = "unlink" -> 6
      [] p = "parse" -> 7
      [] p = "fallback" -> 8
      [] p = "raised" -> 9
      [] p = "returned" -> 9
      [] p = "done" -> 10

\* One step of the call: along an edge, forward in program order (no line,
\* so no engine call, runs twice), into the fallback only with the primary
\* failure just logged, and the envelope is built once, on entering Success
\* or Failed.
StateMachineStep(c) ==
    pc'[c] # pc[c] =>
        /\ <<Phase(c), Phase(c)'>> \in Edges
        /\ Rank(pc'[c]) > Rank(pc[c])
        /\ Phase(c)' = "FallbackAttempted" =>
              /\ Phase(c) = "PrimaryAttempted"
              /\ log'[c][Len(log'[c])]
                    \in {"Docling not installed", "Docling extraction failed"}
        /\ envelope'[c] # envelope[c] =>
              /\ envelope[c] = NoEnvelope
              /\ Phase(c) \in {"PrimaryAttempted", "FallbackAttempted"}
              /\ Phase(c)' \in {"Success", "Failed"}
        /\ Phase(c)' \in {"Success", "Failed"} /\ Phase(c) # Phase(c)' =>
              envelope'[c] # NoEnvelope /\ envelope[c] = NoEnvelope

\* C11: every execution of extract follows NotStarted -> PrimaryAttempted ->
\* {Success, FallbackAttempted} -> {Success, Failed}: the primary attempt
\* comes first and once, the fallback at most once and only after the
\* primary attempt failed, nothing is retried, Failed comes only from
\* FallbackAttempted, one envelope is built; and when the engine calls
\* return every execution ends in Success or in Failed.
C11_StateMachine ==
    /\ [][\A c \in Calls : StateMachineStep(c)]_vars
    /\ \A c \in Calls :
          Phase(c) = "PrimaryAttempted" ~> Phase(c) \in {"Success", "Failed"}

\* C11 witness: an execution whose primary attempt failed at convert or at
\* the staging and whose fallback failed too has ended in Failed.
C11_Witness ==
    \E c \in Calls :
        /\ Phase(c) = "Failed"
        /\ InLog(c, "Docling extraction failed")
        /\ InLog(c, "Fallback extraction also failed")

\* The number of entries of a sequence of element dicts that have type t.
RECURSIVE Occurrences(_, _)
Occurrences(els, t) ==
    IF els = <<>> THEN 0
    ELSE (IF Head(els).type = t THEN 1 ELSE 0) + Occurrences(Tail(els), t)

\* C12: in every primary success statistics.total_elements, the length of
\* elements and metadata.total_elements are equal; each of the six counters
\* (titles, headers, paragraphs, tables, figures, lists) is the number of
\* elements of its type; the six counters add up to total_elements minus
\* the number of caption elements.
C12_CountersMatchElements ==
    \A c \in Calls :
        PrimarySuccess(c) =>
            LET els == envelope[c].elements
                s == envelope[c].statistics
            IN /\ s.total_elements = Len(els)
               /\ envelope[c].metadata.total_elements = Len(els)
               /\ s.titles = Occurrences(els, "title")
               /\ s.headers = Occurrences(els, "header")
               /\ s.paragraphs = Occurrences(els, "paragraph")
               /\ s.tables = Occurrences(els, "table")
               /\ s.figures = Occurrences(els, "figure")
               /\ s.lists = Occurrences(els, "list")
               /\ s.titles + s.headers + s.paragraphs + s.tables + s.figures
                     + s.lists = s.total_elements - Occurrences(els, "caption")

\* C12 witness: a primary success of a caption and a table: two elements,
\* one counted.
C12_Witness ==
    \E c \in Calls :
        /\ PrimarySuccess(c)
        /\ \E i, j \in 1..Len(envelope[c].elements) :
              /\ envelope[c].elements[i].type = "caption"
              /\ envelope[c].elements[j].type = "table"
        /\ envelope[c].statistics.total_elements = 2
        /\ envelope[c].statistics.tables = 1
        /\ envelope[c].statistics.paragraphs = 0

====
